---- MODULE Spec2Model ----
(***************************************************************************)
(* A model of PygButton (src/data/pygbutton.py): one button object, its    *)
(* pointer-event state machine (handle_event), its setters and             *)
(* set_surfaces.  Surfaces are values (source image, size, what was drawn  *)
(* on them); pixel changes that reach a stored original image through      *)
(* object aliasing are not tracked.                                        *)
(***************************************************************************)
EXTENDS Integers, Sequences, FiniteSets, TLC

VARIABLES
    self,           \* the PygButton object: a record of its attributes
    ret,            \* the list returned by the latest handle_event call
    hooks,          \* the mouse_*() hooks the latest handle_event call invoked
    last,           \* the latest call made on the button
    lastEnterExit,  \* the latest of 'enter' / 'exit' ever returned
    lastDown,       \* the latest MOUSEBUTTONDOWN event given to handle_event
    tracing,        \* only handle_event calls were made since construction
    events,         \* while tracing: the events given so far
    signals,        \* while tracing: the returned lists, concatenated
    press,          \* the MOUSEBUTTONUP events given since the latest press inside
    blits           \* the blit calls the latest draw call made on its target

vars == <<self, ret, hooks, last, lastEnterExit, lastDown, tracing, events, signals,
          press, blits>>

----------------------------------------------------------------------------
(* Bounds *)

\* the number of events the event log keeps
MaxTrace == 3

----------------------------------------------------------------------------
(* Values *)

MOUSEMOTION == "MOUSEMOTION"
MOUSEBUTTONUP == "MOUSEBUTTONUP"
MOUSEBUTTONDOWN == "MOUSEBUTTONDOWN"
KEYDOWN == "KEYDOWN"

Rect(l, t, w, h) == [left |-> l, top |-> t, w |-> w, h |-> h]

\* the rectangle a button gets when none is given
DefaultRect == Rect(0, 0, 30, 60)

\* the rectangles given to the constructor and to the rect setter
Rects == {Rect(0, 0, 100, 40), DefaultRect, Rect(150, 180, 100, 40)}

Points == {<<50, 20>>, <<200, 200>>, <<10, 50>>}

Captions == {"", "OK"}

BLACK == "BLACK"
WHITE == "WHITE"
LIGHTGRAY == "LIGHTGRAY"
PYGBUTTON_FONT == "freesansbold 14"

\* the values given to the bgcolor, fgcolor and font setters
BgColors == {LIGHTGRAY, WHITE}
FgColors == {BLACK, WHITE}
Fonts == {PYGBUTTON_FONT, "freesansbold 20"}

\* the image files on disk; ImageSize is what each decodes to
Images == {1, 2}
ImageSize(i) == IF i = 1 THEN <<100, 40>> ELSE <<30, 60>>

\* a pygame.Surface: src = 0 for a surface the button painted itself,
\* otherwise the image it was decoded or scaled from
ImageSurface(i, sz) ==
    [src |-> i, size |-> sz, caption |-> "", style |-> <<>>,
     bevel |-> "none", border |-> <<0, 0>>]
BlankSurface(sz) ==
    [src |-> 0, size |-> sz, caption |-> "", style |-> <<>>,
     bevel |-> "blank", border |-> <<0, 0>>]
\* an attribute that was never assigned
Unset ==
    [src |-> -1, size |-> <<0, 0>>, caption |-> "", style |-> <<>>,
     bevel |-> "unset", border |-> <<0, 0>>]

\* an argument of set_surfaces: None, a file name, or a Surface object
None == [kind |-> "None", img |-> 0]
Path(i) == [kind |-> "str", img |-> i]
Surf(i) == [kind |-> "Surface", img |-> i]
SurfaceArgs == {Path(i) : i \in Images} \cup {Surf(i) : i \in Images}
OptSurfaceArgs == {None} \cup SurfaceArgs

MouseEvents == [type : {MOUSEMOTION, MOUSEBUTTONUP, MOUSEBUTTONDOWN}, pos : Points]
Events == MouseEvents \cup {[type |-> KEYDOWN, pos |-> <<0, 0>>]}

----------------------------------------------------------------------------
(* pygame primitives the button uses *)

collidepoint(r, p) ==
    /\ r.left <= p[1] /\ p[1] < r.left + r.w
    /\ r.top <= p[2] /\ p[2] < r.top + r.h

RectSize(r) == <<r.w, r.h>>

load(arg) == ImageSurface(arg.img, ImageSize(arg.img))

smoothscale(surface, sz) == [surface EXCEPT !.size = sz]

----------------------------------------------------------------------------
(* handle_event, lines 128-209.  The locals of one call are a record s:   *)
(* the three state flags, ret_val, has_exited, and the hooks called so    *)
(* far, each with the flags it saw.                                        *)

Locals(o) ==
    [buttonDown |-> o.buttonDown,
     mouseOverButton |-> o.mouseOverButton,
     lastMouseDownOverButton |-> o.lastMouseDownOverButton,
     ret_val |-> <<>>,
     has_exited |-> FALSE,
     hooks |-> <<>>]

\* self.mouse_xxx(event_obj); ret_val.append('xxx')
Emit(s, hook, signal) ==
    [s EXCEPT !.hooks = Append(@, [name |-> hook,
                                   buttonDown |-> s.buttonDown,
                                   mouseOverButton |-> s.mouseOverButton,
                                   lastMouseDownOverButton |-> s.lastMouseDownOverButton]),
              !.ret_val = Append(@, signal)]

Ignored_TypeOnly(o, ev) ==
    ev.type \notin {MOUSEMOTION, MOUSEBUTTONUP, MOUSEBUTTONDOWN}

\* lines 150-154: the event is not for this button
Ignored(o, ev) ==
    \/ ev.type \notin {MOUSEMOTION, MOUSEBUTTONUP, MOUSEBUTTONDOWN}
    \/ ~o.visible

EnterExit_NoHover(s, ev, r) ==
    IF ~s.mouseOverButton /\ collidepoint(r, ev.pos)
    THEN Emit(s, "mouse_enter", "enter")
    ELSE IF s.mouseOverButton /\ ~collidepoint(r, ev.pos)
    THEN [s EXCEPT !.mouseOverButton = FALSE, !.has_exited = TRUE]
    ELSE s

EnterExit_KeepHover(s, ev, r) ==
    IF ~s.mouseOverButton /\ collidepoint(r, ev.pos)
    THEN Emit([s EXCEPT !.mouseOverButton = TRUE], "mouse_enter", "enter")
    ELSE IF s.mouseOverButton /\ ~collidepoint(r, ev.pos)
    THEN [s EXCEPT !.has_exited = TRUE]
    ELSE s

EnterExit_QuietOnPress(s, ev, r) ==
    IF ~s.mouseOverButton /\ collidepoint(r, ev.pos)
    THEN IF ev.type = MOUSEMOTION
         THEN Emit([s EXCEPT !.mouseOverButton = TRUE], "mouse_enter", "enter")
         ELSE [s EXCEPT !.mouseOverButton = TRUE]
    ELSE IF s.mouseOverButton /\ ~collidepoint(r, ev.pos)
    THEN [s EXCEPT !.mouseOverButton = FALSE, !.has_exited = TRUE]
    ELSE s

\* lines 158-170: has the mouse entered or left the button
EnterExit(s, ev, r) ==
    IF ~s.mouseOverButton /\ collidepoint(r, ev.pos)
    THEN Emit([s EXCEPT !.mouseOverButton = TRUE], "mouse_enter", "enter")
    ELSE IF s.mouseOverButton /\ ~collidepoint(r, ev.pos)
    THEN [s EXCEPT !.mouseOverButton = FALSE, !.has_exited = TRUE]
    ELSE s

OverButton_KeepPending(s, ev, r) ==
    IF collidepoint(r, ev.pos)
    THEN IF ev.type = MOUSEMOTION
         THEN Emit(s, "mouse_move", "move")
         ELSE IF ev.type = MOUSEBUTTONDOWN
         THEN Emit([s EXCEPT !.buttonDown = TRUE, !.lastMouseDownOverButton = TRUE],
                   "mouse_down", "down")
         ELSE s
    ELSE s

OverButton_HookFirst(s, ev, r) ==
    IF collidepoint(r, ev.pos)
    THEN IF ev.type = MOUSEMOTION
         THEN Emit(s, "mouse_move", "move")
         ELSE IF ev.type = MOUSEBUTTONDOWN
         THEN [Emit(s, "mouse_down", "down")
                 EXCEPT !.buttonDown = TRUE, !.lastMouseDownOverButton = TRUE]
         ELSE s
    ELSE IF ev.type \in {MOUSEBUTTONUP, MOUSEBUTTONDOWN}
         THEN [s EXCEPT !.lastMouseDownOverButton = FALSE]
         ELSE s

\* lines 172-186: the event happened over the button, or off it
OverButton(s, ev, r) ==
    IF collidepoint(r, ev.pos)
    THEN IF ev.type = MOUSEMOTION
         THEN Emit(s, "mouse_move", "move")
         ELSE IF ev.type = MOUSEBUTTONDOWN
         THEN Emit([s EXCEPT !.buttonDown = TRUE, !.lastMouseDownOverButton = TRUE],
                   "mouse_down", "down")
         ELSE s
    ELSE IF ev.type \in {MOUSEBUTTONUP, MOUSEBUTTONDOWN}
         THEN [s EXCEPT !.lastMouseDownOverButton = FALSE]
         ELSE s

Up_KeepDown(s) ==
    IF s.buttonDown
    THEN Emit(s, "mouse_up", "up")
    ELSE s

\* lines 195-198
Up(s) ==
    IF s.buttonDown
    THEN Emit([s EXCEPT !.buttonDown = FALSE], "mouse_up", "up")
    ELSE s

\* lines 200-203
Click(s, do_mouse_click) ==
    IF do_mouse_click
    THEN Emit([s EXCEPT !.buttonDown = FALSE], "mouse_click", "click")
    ELSE s

MouseUp_ClickFirst(s, ev) ==
    IF ev.type = MOUSEBUTTONUP
    THEN LET do_mouse_click == s.lastMouseDownOverButton
             t == [s EXCEPT !.lastMouseDownOverButton = FALSE]
         IN  Up(IF do_mouse_click THEN Emit(t, "mouse_click", "click") ELSE t)
    ELSE s

MouseUp_ClearFirst(s, ev) ==
    IF ev.type = MOUSEBUTTONUP
    THEN LET t == [s EXCEPT !.lastMouseDownOverButton = FALSE]
             do_mouse_click == t.lastMouseDownOverButton
         IN  Click(Up(t), do_mouse_click)
    ELSE s

MouseUp_KeepPending(s, ev) ==
    IF ev.type = MOUSEBUTTONUP
    THEN LET do_mouse_click == s.lastMouseDownOverButton
         IN  Click(Up(s), do_mouse_click)
    ELSE s

MouseUp_AlwaysUp(s, ev) ==
    IF ev.type = MOUSEBUTTONUP
    THEN LET do_mouse_click == s.lastMouseDownOverButton
             t == [s EXCEPT !.lastMouseDownOverButton = FALSE]
         IN  Click(Emit([t EXCEPT !.buttonDown = FALSE], "mouse_up", "up"),
                   do_mouse_click)
    ELSE s

\* lines 188-203: mouse up is handled whether or not it was over the button
MouseUp(s, ev) ==
    IF ev.type = MOUSEBUTTONUP
    THEN LET do_mouse_click == s.lastMouseDownOverButton
             t == [s EXCEPT !.lastMouseDownOverButton = FALSE]
         IN  Click(Up(t), do_mouse_click)
    ELSE s

\* lines 205-207
Exited(s) ==
    IF s.has_exited THEN Emit(s, "mouse_exit", "exit") ELSE s

handle_event_ExitFirst(o, ev) ==
    MouseUp(Exited(OverButton(EnterExit(Locals(o), ev, o.rect), ev, o.rect)), ev)

\* lines 156-209: the locals when a call that is not ignored returns
handle_event(o, ev) ==
    Exited(MouseUp(OverButton(EnterExit(Locals(o), ev, o.rect), ev, o.rect), ev))

----------------------------------------------------------------------------
(* Appearance *)

\* what lines 243-275 leave on a surface: background, caption and a border
\* drawn for the rectangle's width and height; the surface keeps its size
Painted(surface, o, bevel) ==
    [src |-> 0, size |-> surface.size, caption |-> o.caption,
     style |-> <<o.bgcolor, o.fgcolor, o.font>>,
     bevel |-> bevel, border |-> RectSize(o.rect)]

\* lines 225-278
_update(o) ==
    IF o.customSurfaces
    THEN [o EXCEPT !.surfaceNormal = smoothscale(o.origSurfaceNormal, RectSize(o.rect)),
                   !.surfaceDown = smoothscale(o.origSurfaceDown, RectSize(o.rect)),
                   !.surfaceHighlight = smoothscale(o.origSurfaceHighlight, RectSize(o.rect))]
    ELSE [o EXCEPT !.surfaceNormal = Painted(@, o, "raised"),
                   !.surfaceDown = Painted(@, o, "sunken"),
                   !.surfaceHighlight = Painted(o.surfaceNormal, o, "raised")]

Handled_Redraw(o, s) ==
    _update([o EXCEPT !.buttonDown = s.buttonDown,
                      !.mouseOverButton = s.mouseOverButton,
                      !.lastMouseDownOverButton = s.lastMouseDownOverButton])

\* lines 161-201: the attributes handle_event assigns
Handled(o, s) ==
    [o EXCEPT !.buttonDown = s.buttonDown,
              !.mouseOverButton = s.mouseOverButton,
              !.lastMouseDownOverButton = s.lastMouseDownOverButton]

\* surface_obj.blit(source, self._rect); attr is the attribute blitted
Blit(attr, o) == [attr |-> attr, source |-> o[attr], dest |-> o.rect]

draw_HoverFirst(o) ==
    IF o.visible
    THEN IF o.mouseOverButton
         THEN <<Blit("surfaceHighlight", o)>>
         ELSE IF o.buttonDown
         THEN <<Blit("surfaceDown", o)>>
         ELSE <<Blit("surfaceNormal", o)>>
    ELSE <<>>

\* lines 211-223: the blit calls draw makes on surface_obj
draw(o) ==
    IF o.visible
    THEN IF o.buttonDown
         THEN <<Blit("surfaceDown", o)>>
         ELSE IF o.mouseOverButton
         THEN <<Blit("surfaceHighlight", o)>>
         ELSE <<Blit("surfaceNormal", o)>>
    ELSE <<>>

\* lines 310-320: the defaults, and the files that are loaded
Loaded(o, normal_surface, down, highlight) ==
    LET down_surface == IF down = None THEN normal_surface ELSE down
        highlight_surface == IF highlight = None THEN normal_surface ELSE highlight
    IN  [o EXCEPT
           !.origSurfaceNormal =
               IF normal_surface.kind = "str" THEN load(normal_surface) ELSE @,
           !.origSurfaceDown =
               IF down_surface.kind = "str" THEN load(down_surface) ELSE @,
           !.origSurfaceHighlight =
               IF highlight_surface.kind = "str" THEN load(highlight_surface) ELSE @]

\* lines 322-325: "none" when the test passes, else the exception raised.
\* a != b != c is (a != b) and (b != c), and c is not read when a = b
SizeCheck(o) ==
    IF o.origSurfaceNormal = Unset \/ o.origSurfaceDown = Unset
    THEN "AttributeError"
    ELSE IF o.origSurfaceNormal.size # o.origSurfaceDown.size
    THEN IF o.origSurfaceHighlight = Unset
         THEN "AttributeError"
         ELSE IF o.origSurfaceDown.size # o.origSurfaceHighlight.size
         THEN "Exception"
         ELSE "none"
    ELSE "none"

\* lines 327-334
Assigned(o) ==
    LET o2 == [o EXCEPT !.surfaceNormal = o.origSurfaceNormal,
                        !.surfaceDown = o.origSurfaceDown]
    IN  IF o.origSurfaceHighlight = Unset
        THEN [self |-> o2, err |-> "AttributeError"]
        ELSE [self |-> [o2 EXCEPT
                          !.surfaceHighlight = o.origSurfaceHighlight,
                          !.customSurfaces = TRUE,
                          !.rect = Rect(o.rect.left, o.rect.top,
                                        o.origSurfaceNormal.size[1],
                                        o.origSurfaceNormal.size[2])],
              err |-> "none"]

\* lines 298-334: the object when the call returns or raises, and what it raised
set_surfaces(o, normal_surface, down_surface, highlight_surface) ==
    LET o1 == Loaded(o, normal_surface, down_surface, highlight_surface)
    IN  IF SizeCheck(o1) # "none"
        THEN [self |-> o1, err |-> SizeCheck(o1)]
        ELSE Assigned(o1)

\* lines 92-116: the attributes before the surfaces are made
Attributes(rect, caption) ==
    [rect |-> rect, caption |-> caption, visible |-> TRUE,
     bgcolor |-> LIGHTGRAY, fgcolor |-> BLACK, font |-> PYGBUTTON_FONT,
     buttonDown |-> FALSE, mouseOverButton |-> FALSE,
     lastMouseDownOverButton |-> FALSE, customSurfaces |-> FALSE,
     surfaceNormal |-> Unset, surfaceDown |-> Unset, surfaceHighlight |-> Unset,
     origSurfaceNormal |-> Unset, origSurfaceDown |-> Unset,
     origSurfaceHighlight |-> Unset]

\* lines 118-123: a text button
TextButton(rect, caption) ==
    _update([Attributes(rect, caption) EXCEPT
               !.surfaceNormal = BlankSurface(RectSize(rect)),
               !.surfaceDown = BlankSurface(RectSize(rect)),
               !.surfaceHighlight = BlankSurface(RectSize(rect))])

\* lines 124-126: a custom image button
ImageButton(rect, caption, normal, down, highlight) ==
    set_surfaces(Attributes(rect, caption), normal, down, highlight)

----------------------------------------------------------------------------
(* The calls *)

NoCall ==
    [op |-> "__init__", type |-> "", inside |-> FALSE, visible |-> TRUE,
     err |-> "none", normal |-> None, single |-> FALSE, sameSize |-> TRUE]

\* the three images a set_surfaces call is given have one size
SameSize(normal, down, highlight) ==
    LET n == ImageSize(normal.img)
        d == IF down = None THEN n ELSE ImageSize(down.img)
        h == IF highlight = None THEN n ELSE ImageSize(highlight.img)
    IN  n = d /\ d = h

\* the latest of 'enter' and 'exit' in a returned list, else prev
RECURSIVE LatestEnterExit(_, _)
LatestEnterExit(prev, list) ==
    IF list = <<>> THEN prev
    ELSE LatestEnterExit(IF Head(list) \in {"enter", "exit"} THEN Head(list) ELSE prev,
                         Tail(list))

\* a call that is not handle_event ends the event log
EndLog ==
    /\ ret' = <<>>
    /\ hooks' = <<>>
    /\ tracing' = FALSE
    /\ events' = <<>>
    /\ signals' = <<>>
    /\ blits' = <<>>
    /\ UNCHANGED <<lastEnterExit, lastDown, press>>

Log(ev) ==
    IF tracing /\ Len(events) < MaxTrace
    THEN /\ tracing' = TRUE
         /\ events' = Append(events, ev)
         /\ signals' = signals \o ret'
    ELSE /\ tracing' = FALSE
         /\ events' = <<>>
         /\ signals' = <<>>

\* __init__, lines 90-126: every button the constructor can return
Buttons ==
    {TextButton(rect, caption) : rect \in Rects, caption \in Captions}
    \cup {b.self : b \in {c \in {ImageButton(rect, caption, normal, down, highlight) :
                                    rect \in Rects, caption \in Captions,
                                    normal \in SurfaceArgs,
                                    down \in OptSurfaceArgs,
                                    highlight \in OptSurfaceArgs} : c.err = "none"}}

\* the buttons the pointer events are given to: a text button and a
\* one-image button on each rectangle
EventButtons ==
    {TextButton(rect, "") : rect \in Rects}
    \cup {ImageButton(rect, "", Path(1), None, None).self : rect \in Rects}

Constructed(buttons) ==
    /\ self \in buttons
    /\ ret = <<>>
    /\ hooks = <<>>
    /\ last = NoCall
    /\ lastEnterExit = "none"
    /\ lastDown = [where |-> "none", visible |-> TRUE]
    /\ tracing = TRUE
    /\ events = <<>>
    /\ signals = <<>>
    /\ press = [down |-> FALSE, up |-> FALSE, upVisible |-> FALSE]
    /\ blits = <<>>

Init == Constructed(EventButtons)

InitSurfaces == Constructed(Buttons)

\* handle_event, lines 128-209
HandleEvent(ev) ==
    /\ IF Ignored(self, ev)
       THEN /\ self' = self
            /\ ret' = <<>>
            /\ hooks' = <<>>
       ELSE LET s == handle_event(self, ev)
            IN  /\ self' = Handled(self, s)
                /\ ret' = s.ret_val
                /\ hooks' = s.hooks
    /\ last' = [NoCall EXCEPT !.op = "handle_event", !.type = ev.type,
                              !.inside = (ev.type # KEYDOWN /\ collidepoint(self.rect, ev.pos)),
                              !.visible = self.visible]
    /\ lastEnterExit' = LatestEnterExit(lastEnterExit, ret')
    /\ lastDown' = IF ev.type = MOUSEBUTTONDOWN
                   THEN [where |-> IF collidepoint(self.rect, ev.pos)
                                   THEN "inside" ELSE "outside",
                         visible |-> self.visible]
                   ELSE lastDown
    /\ press' = IF ev.type = MOUSEBUTTONDOWN /\ collidepoint(self.rect, ev.pos)
                THEN [down |-> TRUE, up |-> FALSE, upVisible |-> FALSE]
                ELSE IF ev.type = MOUSEBUTTONUP /\ press.down
                THEN [press EXCEPT !.up = TRUE, !.upVisible = @ \/ self.visible]
                ELSE press
    /\ blits' = <<>>
    /\ Log(ev)

\* draw, lines 211-223
Draw ==
    /\ blits' = draw(self)
    /\ self' = self
    /\ last' = [NoCall EXCEPT !.op = "draw"]
    /\ ret' = <<>>
    /\ hooks' = <<>>
    /\ tracing' = FALSE
    /\ events' = <<>>
    /\ signals' = <<>>
    /\ UNCHANGED <<lastEnterExit, lastDown, press>>

\* set_surfaces, lines 298-334
SetSurfaces(normal, down, highlight) ==
    /\ self' = set_surfaces(self, normal, down, highlight).self
    /\ last' = [NoCall EXCEPT !.op = "set_surfaces",
                              !.err = set_surfaces(self, normal, down, highlight).err,
                              !.normal = normal,
                              !.single = (down = None /\ highlight = None),
                              !.sameSize = SameSize(normal, down, highlight)]
    /\ EndLog

\* the caption setter, lines 339-342
SetCaption(caption_text) ==
    /\ self' = _update([self EXCEPT !.customSurfaces = FALSE, !.caption = caption_text])
    /\ last' = [NoCall EXCEPT !.op = "caption"]
    /\ EndLog

\* the rect setter, lines 347-351
SetRect(new_rect) ==
    /\ self' = [_update(self) EXCEPT !.rect = new_rect]
    /\ last' = [NoCall EXCEPT !.op = "rect"]
    /\ EndLog

\* the fgcolor setter, lines 362-365
SetFgColor(setting) ==
    /\ self' = _update([self EXCEPT !.customSurfaces = FALSE, !.fgcolor = setting])
    /\ last' = [NoCall EXCEPT !.op = "fgcolor"]
    /\ EndLog

\* the bgcolor setter, lines 370-373
SetBgColor(setting) ==
    /\ self' = _update([self EXCEPT !.customSurfaces = FALSE, !.bgcolor = setting])
    /\ last' = [NoCall EXCEPT !.op = "bgcolor"]
    /\ EndLog

\* the font setter, lines 378-381
SetFont(setting) ==
    /\ self' = _update([self EXCEPT !.customSurfaces = FALSE, !.font = setting])
    /\ last' = [NoCall EXCEPT !.op = "font"]
    /\ EndLog

\* the visible setter, lines 356-357
SetVisible(setting) ==
    /\ self' = [self EXCEPT !.visible = setting]
    /\ last' = [NoCall EXCEPT !.op = "visible"]
    /\ EndLog

\* the pointer events, with the setters that decide what they do
Next ==
    \/ \E ev \in Events : HandleEvent(ev)
    \/ \E new_rect \in Rects : SetRect(new_rect)
    \/ \E setting \in BOOLEAN : SetVisible(setting)

Spec == Init /\ [][Next]_vars

\* the same calls, and draw
NextDraw ==
    \/ \E ev \in Events : HandleEvent(ev)
    \/ \E new_rect \in Rects : SetRect(new_rect)
    \/ \E setting \in BOOLEAN : SetVisible(setting)
    \/ Draw

SpecDraw == Init /\ [][NextDraw]_vars

\* the calls that change the button's surfaces
NextSurfaces ==
    \/ \E normal \in SurfaceArgs, down, highlight \in OptSurfaceArgs :
          SetSurfaces(normal, down, highlight)
    \/ \E caption_text \in Captions : SetCaption(caption_text)
    \/ \E new_rect \in Rects : SetRect(new_rect)

SpecSurfaces == InitSurfaces /\ [][NextSurfaces]_vars

\* the pointer events, with the setters that redraw a text button
NextStyle ==
    \/ \E ev \in Events : HandleEvent(ev)
    \/ \E caption_text \in Captions : SetCaption(caption_text)
    \/ \E new_rect \in Rects : SetRect(new_rect)
    \/ \E setting \in FgColors : SetFgColor(setting)
    \/ \E setting \in BgColors : SetBgColor(setting)
    \/ \E setting \in Fonts : SetFont(setting)

SpecStyle == Init /\ [][NextStyle]_vars

----------------------------------------------------------------------------
(* Properties *)

Range(list) == {list[i] : i \in DOMAIN list}

HookNames == {hooks[i].name : i \in DOMAIN hooks}

Move(x, y) == [type |-> MOUSEMOTION, pos |-> <<x, y>>]
Down(x, y) == [type |-> MOUSEBUTTONDOWN, pos |-> <<x, y>>]
Release(x, y) == [type |-> MOUSEBUTTONUP, pos |-> <<x, y>>]

\* the events were given, in this order, to a button just made with this rectangle
Scenario(r, evs) == tracing /\ self.rect = r /\ events = evs

\* in list, 'enter' and 'exit' take turns, going on from prev
RECURSIVE Alternates(_, _)
Alternates(prev, list) ==
    IF list = <<>> THEN TRUE
    ELSE IF Head(list) = "enter"
    THEN prev # "enter" /\ Alternates("enter", Tail(list))
    ELSE IF Head(list) = "exit"
    THEN prev = "enter" /\ Alternates("exit", Tail(list))
    ELSE Alternates(prev, Tail(list))

\* C1: over all the calls made on a button, the 'enter' and 'exit' signals
\* handle_event returns alternate, starting with 'enter': every list it
\* returns carries the alternation on from the latest of the two returned before
C1_EnterExitAlternate ==
    [][last'.op = "handle_event" => Alternates(lastEnterExit, ret')]_vars

\* an 'exit' was returned, after the 'enter' it answers
C1_Witness ==
    last.op = "handle_event" /\ "exit" \in Range(ret) /\ lastEnterExit = "exit"

\* C2: in a returned list holding both 'up' and 'click', 'up' comes first,
\* and mouse_up was called before mouse_click
C2_UpBeforeClick ==
    /\ \A i, j \in DOMAIN ret : ret[i] = "up" /\ ret[j] = "click" => i < j
    /\ \A i, j \in DOMAIN hooks :
          hooks[i].name = "mouse_up" /\ hooks[j].name = "mouse_click" => i < j

C2_Witness ==
    {"up", "click"} \subseteq Range(ret) /\ {"mouse_up", "mouse_click"} \subseteq HookNames

\* C3, as claimed: after handle_event was given any MOUSEBUTTONUP event,
\* lastMouseDownOverButton is false
C3_ReleaseClearsPending ==
    (last.op = "handle_event" /\ last.type = MOUSEBUTTONUP)
        => ~self.lastMouseDownOverButton

\* C3, amended: after handle_event was given a MOUSEBUTTONUP event while the
\* button was visible, lastMouseDownOverButton is false
C3_VisibleReleaseClearsPending ==
    (last.op = "handle_event" /\ last.type = MOUSEBUTTONUP /\ last.visible)
        => ~self.lastMouseDownOverButton

\* a release that found lastMouseDownOverButton set: it returned 'click'
C3_Witness ==
    /\ last.op = "handle_event" /\ last.type = MOUSEBUTTONUP /\ last.visible
    /\ "click" \in Range(ret)
    /\ ~self.lastMouseDownOverButton

\* C4, as claimed: when the latest MOUSEBUTTONDOWN event was outside the
\* rectangle, a MOUSEBUTTONUP event inside it does not return 'click'
C4_NoClickAfterDownOutside ==
    (/\ last.op = "handle_event" /\ last.type = MOUSEBUTTONUP /\ last.inside
     /\ lastDown.where = "outside")
        => "click" \notin Range(ret)

\* C4, amended: when the latest MOUSEBUTTONDOWN event was outside the
\* rectangle and the button was visible when it came, a MOUSEBUTTONUP event
\* inside the rectangle does not return 'click'
C4_NoClickAfterVisibleDownOutside ==
    (/\ last.op = "handle_event" /\ last.type = MOUSEBUTTONUP /\ last.inside
     /\ lastDown.where = "outside" /\ lastDown.visible)
        => "click" \notin Range(ret)

\* a press outside, then a release inside that the button handled: the
\* button was still down from an earlier press, so 'up' is all it returned
C4_Witness ==
    /\ last.op = "handle_event" /\ last.type = MOUSEBUTTONUP /\ last.inside
    /\ last.visible
    /\ lastDown.where = "outside" /\ lastDown.visible
    /\ ret = <<"up">>

\* C5: a new button with rectangle (0,0,100,40) given move(50,20),
\* down(50,20), up(50,20) returns, in all, enter, move, down, up, click
C5_ClickScenario ==
    Scenario(Rect(0, 0, 100, 40), <<Move(50, 20), Down(50, 20), Release(50, 20)>>)
        => signals = <<"enter", "move", "down", "up", "click">>

C5_Witness ==
    /\ Scenario(Rect(0, 0, 100, 40), <<Move(50, 20), Down(50, 20), Release(50, 20)>>)
    /\ signals = <<"enter", "move", "down", "up", "click">>
    /\ ret = <<"up", "click">>

\* C6, as claimed: a new button with rectangle (0,0,100,40) given
\* down(200,200), move(50,20), up(50,20) returns enter, move and then up
C6_UpWithoutClick ==
    Scenario(Rect(0, 0, 100, 40), <<Down(200, 200), Move(50, 20), Release(50, 20)>>)
        => signals = <<"enter", "move", "up">>

\* C6, amended: that button returns enter and move, and nothing for the
\* release: neither up nor click
C6_NoUpNoClick ==
    Scenario(Rect(0, 0, 100, 40), <<Down(200, 200), Move(50, 20), Release(50, 20)>>)
        => signals = <<"enter", "move">> /\ ret = <<>>

C6_Witness ==
    /\ Scenario(Rect(0, 0, 100, 40), <<Down(200, 200), Move(50, 20), Release(50, 20)>>)
    /\ signals = <<"enter", "move">>
    /\ last.type = MOUSEBUTTONUP /\ last.inside /\ ~self.buttonDown

\* C7: set_surfaces raises its size exception whenever the three images
\* given are not all of one size, so that the three surfaces of a button
\* with custom surfaces are of one size
C7_MismatchRaises ==
    /\ (last.op = "set_surfaces" /\ ~last.sameSize) => last.err = "Exception"
    /\ self.customSurfaces =>
          /\ self.origSurfaceNormal.size = self.origSurfaceDown.size
          /\ self.origSurfaceDown.size = self.origSurfaceHighlight.size

\* C8: a set_surfaces call that raises its size exception leaves every
\* attribute of the button as it was
C8_RaiseLeavesButton ==
    [][(last'.op = "set_surfaces" /\ last'.err = "Exception") => self' = self]_vars

\* C9: set_surfaces given the normal image alone, as a file name or as a
\* Surface, returns with custom surfaces on, all three surfaces that image,
\* the rectangle of the image's size, and its position as before
C9_SingleImage ==
    [][(last'.op = "set_surfaces" /\ last'.single) =>
          /\ last'.err = "none"
          /\ self'.customSurfaces
          /\ self'.surfaceNormal = load(last'.normal)
          /\ self'.surfaceDown = load(last'.normal)
          /\ self'.surfaceHighlight = load(last'.normal)
          /\ RectSize(self'.rect) = ImageSize(last'.normal.img)
          /\ self'.rect.left = self.rect.left
          /\ self'.rect.top = self.rect.top]_vars

\* C10: when mouse_down is called buttonDown is true; when mouse_up or
\* mouse_click is called buttonDown and lastMouseDownOverButton are false
C10_FlagsAtHooks ==
    \A i \in DOMAIN hooks :
        /\ hooks[i].name = "mouse_down" => hooks[i].buttonDown
        /\ hooks[i].name \in {"mouse_up", "mouse_click"} =>
              ~hooks[i].buttonDown /\ ~hooks[i].lastMouseDownOverButton

\* mouse_down was called, and saw buttonDown set
C10_Witness ==
    /\ \E i \in DOMAIN hooks : hooks[i].name = "mouse_down" /\ hooks[i].buttonDown
    /\ self.buttonDown /\ self.lastMouseDownOverButton

\* the attributes that decide what the button looks like
Appearance ==
    {"rect", "visible", "caption", "bgcolor", "fgcolor", "font", "customSurfaces",
     "surfaceNormal", "surfaceDown", "surfaceHighlight",
     "origSurfaceNormal", "origSurfaceDown", "origSurfaceHighlight"}

\* C11: a handle_event call on an invisible button, or with an event that is
\* no mouse event, returns an empty list, calls no hook and leaves every
\* attribute of the button as it was
C11_IgnoredEvents ==
    [][(last'.op = "handle_event" /\ (~last'.visible \/ last'.type = KEYDOWN))
          => (ret' = <<>> /\ hooks' = <<>> /\ self' = self)]_vars

\* a release given to an invisible button: its flags stay as the press left them
C11_Witness ==
    /\ last.op = "handle_event" /\ last.type = MOUSEBUTTONUP /\ ~last.visible
    /\ ret = <<>> /\ hooks = <<>>
    /\ self.buttonDown /\ self.lastMouseDownOverButton /\ self.mouseOverButton

SignalOrder == <<"enter", "move", "down", "up", "click", "exit">>

Place(signal) == CHOOSE k \in DOMAIN SignalOrder : SignalOrder[k] = signal

\* C12: every list handle_event returns is a subsequence of enter, move,
\* down, up, click, exit, in that order and with no signal twice
C12_SignalOrder ==
    /\ Range(ret) \subseteq Range(SignalOrder)
    /\ \A i, j \in DOMAIN ret : i < j => Place(ret[i]) < Place(ret[j])

\* a release outside the rectangle while the button is down and hovered
C12_Witness ==
    ret = <<"up", "exit">>

\* C13, as claimed: buttonDown is true only if a MOUSEBUTTONDOWN event came
\* inside the rectangle and no MOUSEBUTTONUP event was given since; after
\* any MOUSEBUTTONUP event it is false
C13_DownOnlyUntilRelease ==
    /\ self.buttonDown => (press.down /\ ~press.up)
    /\ (last.op = "handle_event" /\ last.type = MOUSEBUTTONUP) => ~self.buttonDown

\* C13, amended: buttonDown is true only if a MOUSEBUTTONDOWN event came
\* inside the rectangle and no MOUSEBUTTONUP event was given to the visible
\* button since; after a MOUSEBUTTONUP event given to the visible button it
\* is false
C13_DownOnlyUntilVisibleRelease ==
    /\ self.buttonDown => (press.down /\ ~press.upVisible)
    /\ (last.op = "handle_event" /\ last.type = MOUSEBUTTONUP /\ last.visible)
          => ~self.buttonDown

\* a release given to the visible button that was down: 'up' is returned
\* and buttonDown is false
C13_Witness ==
    /\ last.op = "handle_event" /\ last.type = MOUSEBUTTONUP /\ last.visible
    /\ "up" \in Range(ret)
    /\ press.down /\ press.upVisible /\ ~self.buttonDown

C15_ScaledToNewRect ==
    (last.op = "rect" /\ self.customSurfaces) =>
        /\ self.surfaceNormal = smoothscale(self.origSurfaceNormal, RectSize(self.rect))
        /\ self.surfaceDown = smoothscale(self.origSurfaceDown, RectSize(self.rect))
        /\ self.surfaceHighlight =
              smoothscale(self.origSurfaceHighlight, RectSize(self.rect))

\* C16: a handle_event call leaves the rectangle, visibility, caption,
\* colors, font, the text/image mode and the surfaces as they were
C16_EventsKeepAppearance ==
    [][last'.op = "handle_event" => \A a \in Appearance : self'[a] = self[a]]_vars

\* a press handled by a button whose caption, colors and font were all set
C16_Witness ==
    /\ last.op = "handle_event" /\ "down" \in Range(ret) /\ self.buttonDown
    /\ self.caption = "OK" /\ self.bgcolor = WHITE /\ self.fgcolor = WHITE
    /\ self.font # PYGBUTTON_FONT

\* the first event a new button is given is a press inside its rectangle
FirstPress ==
    /\ tracing /\ Len(events) = 1
    /\ events[1].type = MOUSEBUTTONDOWN /\ collidepoint(self.rect, events[1].pos)

\* C17, as claimed: a new button whose first event is a press inside it sets
\* buttonDown and returns 'down' with no 'enter' before it
C17_DownWithoutEnter ==
    FirstPress => (self.buttonDown /\ ret = <<"down">>)

\* C17, amended: a press inside sets buttonDown whether or not an earlier
\* call returned 'enter', and when the latest of 'enter' and 'exit' returned
\* before is not 'enter' the call itself returns 'enter' before 'down': no
\* 'down' is returned without an 'enter' before it that no 'exit' has answered
C17_EnterBeforeDown ==
    [][/\ "down" \in Range(ret') =>
             /\ self'.buttonDown
             /\ lastEnterExit' = "enter"
             /\ lastEnterExit # "enter" => ret' = <<"enter", "down">>
       /\ (last'.op = "handle_event" /\ last'.type = MOUSEBUTTONDOWN
           /\ last'.inside /\ last'.visible) => "down" \in Range(ret')
      ]_vars

C17_Witness ==
    FirstPress /\ self.buttonDown /\ ret = <<"enter", "down">>

\* C18: draw blits nothing when the button is invisible, else exactly one
\* surface at the button's rectangle: surfaceDown if buttonDown, else
\* surfaceHighlight if mouseOverButton, else surfaceNormal; and it leaves the
\* button as it was
C18_DrawByState ==
    [][last'.op = "draw" =>
          /\ self' = self
          /\ ~self.visible => blits' = <<>>
          /\ self.visible =>
                /\ Len(blits') = 1
                /\ blits'[1].dest = self.rect
                /\ self.buttonDown =>
                      /\ blits'[1].attr = "surfaceDown"
                      /\ blits'[1].source = self.surfaceDown
                /\ (~self.buttonDown /\ self.mouseOverButton) =>
                      /\ blits'[1].attr = "surfaceHighlight"
                      /\ blits'[1].source = self.surfaceHighlight
                /\ (~self.buttonDown /\ ~self.mouseOverButton) =>
                      /\ blits'[1].attr = "surfaceNormal"
                      /\ blits'[1].source = self.surfaceNormal]_vars

\* the button was pressed and the pointer then left it: surfaceDown is
\* what is drawn
C18_Witness ==
    /\ last.op = "draw" /\ self.visible
    /\ self.buttonDown /\ ~self.mouseOverButton
    /\ Len(blits) = 1 /\ blits[1].attr = "surfaceDown"
    /\ blits[1].source = self.surfaceDown /\ blits[1].dest = self.rect

\* C19: lastMouseDownOverButton implies buttonDown, and a returned list
\* holding 'click' holds 'up'
C19_PendingImpliesDown ==
    /\ self.lastMouseDownOverButton => self.buttonDown
    /\ "click" \in Range(ret) => "up" \in Range(ret)

\* the button was pressed and the pointer then left it: both flags stay set
C19_Witness ==
    /\ self.lastMouseDownOverButton /\ self.buttonDown /\ ~self.mouseOverButton
    /\ "exit" \in Range(ret)

\* C20: after handle_event handled a mouse event on a visible button,
\* mouseOverButton says whether the event was inside the rectangle; and
\* mouse_move and mouse_down are called with mouseOverButton true
C20_HoverIsInside ==
    /\ (last.op = "handle_event" /\ last.visible /\ last.type # KEYDOWN)
          => (self.mouseOverButton <=> last.inside)
    /\ \A i \in DOMAIN hooks :
          hooks[i].name \in {"mouse_move", "mouse_down"} => hooks[i].mouseOverButton

\* a press outside the rectangle of a button the pointer was over
C20_Witness ==
    /\ last.op = "handle_event" /\ last.visible /\ last.type = MOUSEBUTTONDOWN
    /\ ~last.inside /\ ~self.mouseOverButton
    /\ ret = <<"exit">>

====
